---- MODULE Spec2Model ----
(***************************************************************************)
(* Model of git_repo_explorer: the repository resolver and structure       *)
(* builder (repo_handler.py), the selection bookkeeping of the application *)
(* (main.py), the list widget state (gui.py) and the report writer         *)
(* (file_writer.py).                                                       *)
(*                                                                         *)
(* Strings are sequences of characters; a few long literals that the code  *)
(* only ever compares as a whole ("https://github.com", ".git", "tree")    *)
(* are kept as one element.                                                *)
(***************************************************************************)
EXTENDS Integers, Sequences, FiniteSets, TLC

\* ------------------------------------------------------------------ bounds

\* Largest number of paths the ignore predicate of one scan matches.
MaxIgnored == 2

\* Largest number of files on the disk of the writer that are not plain text.
MaxUnusual == 2

\* Largest number of resolvers whose constructor raised that await __del__.
MaxUnreachable == 1

\* ------------------------------------------------------------------ strings

Sep == "/"

\* a + b + ... for path strings
Join(prefix, name) == prefix \o <<Sep>> \o name

\* str.startswith
StartsWith(s, p) ==
    /\ Len(p) <= Len(s)
    /\ SubSeq(s, 1, Len(p)) = p

\* str.endswith, for a one-element suffix
EndsWith(s, last) == Len(s) > 0 /\ s[Len(s)] = last

\* str.split(os.sep): the components between separators
RECURSIVE SplitFrom(_, _, _)
SplitFrom(s, i, cur) ==
    IF i > Len(s) THEN <<cur>>
    ELSE IF s[i] = Sep THEN <<cur>> \o SplitFrom(s, i + 1, <<>>)
    ELSE SplitFrom(s, i + 1, Append(cur, s[i]))

Split(s) == SplitFrom(s, 1, <<>>)

Range(s) == {s[i] : i \in 1..Len(s)}

\* ------------------------------------------------------------------ the disk

\* A directory entry on disk: a regular file, a directory with its entries in
\* enumeration order, or a symbolic link to a directory.
File(n) == [name |-> n, kind |-> "file", children |-> <<>>]
Dir(n, ch) == [name |-> n, kind |-> "dir", children |-> ch]
Link(n) == [name |-> n, kind |-> "link", children |-> <<>>]

DotGit == <<".git">>
GitIgnore == <<".git", "ignore">>

\* A checkout with a root .gitignore, a build output it ignores, a nested
\* directory and Git metadata.
TreeLocal ==
    << Dir(DotGit, <<File(<<"H">>)>>),
       File(GitIgnore),
       File(<<"o">>),
       Dir(<<"a", "b">>, << File(<<"c">>), Dir(<<"d">>, <<File(<<"e">>)>>) >>) >>

\* A checkout without .gitignore: a submodule link file named .git, a nested
\* .git directory, sibling names sharing a prefix, and a symbolic link.
TreeRemote ==
    << Dir(DotGit, <<File(<<"H">>)>>),
       Dir(<<"a">>, <<File(DotGit)>>),
       Dir(<<"a", "b">>, << Dir(DotGit, <<File(<<"x">>)>>), File(<<"g">>) >>),
       Link(<<"l">>) >>

\* Another branch of the remote repository.
TreeBranch ==
    << Dir(DotGit, <<File(<<"H">>)>>), File(<<"r">>), Dir(<<"e">>, <<>>) >>

\* A branch of the remote repository that holds no file.
TreeBare ==
    << Dir(DotGit, <<File(<<"H">>)>>), Dir(<<"e">>, <<>>) >>

\* A checkout whose ignored and Git metadata directories are nested deeper.
TreeDeep ==
    << File(GitIgnore),
       Dir(<<"s">>, << Dir(<<"t">>, << Dir(DotGit, <<File(<<"x">>)>>),
                                       Dir(<<"u">>, <<File(<<"y">>)>>),
                                       File(<<"z">>) >>),
                       File(DotGit) >>) >>

\* A directory that is no Git checkout.
TreePlain == << File(<<"r">>) >>

\* ------------------------------------------------------------------ repo_handler.py: structure builder

\* The nested mapping get_repo_structure returns: a sequence of entries in
\* insertion order, a directory being a nested mapping ("dict") and a file the
\* leaf marker False ("leaf").
Leaf(n) == [name |-> n, kind |-> "leaf", children |-> <<>>]
Dict(n, ch) == [name |-> n, kind |-> "dict", children |-> ch]

\* Position of key n in a mapping, 0 when absent.
KeyIndex(level, n) ==
    IF \E i \in 1..Len(level) : level[i].name = n
    THEN CHOOSE i \in 1..Len(level) : level[i].name = n
    ELSE 0

\* level[n] = value: replaces in place, or appends a new key
SetItem(level, n, value) ==
    IF KeyIndex(level, n) = 0 THEN Append(level, value)
    ELSE [level EXCEPT ![KeyIndex(level, n)] = value]

\* ignore_func: the predicate parse_gitignore returned, as the set of absolute
\* paths it matches
ignore_func(ignored, abs_path) == abs_path \in ignored

\* os.path.join(self._repo_dir, relative_root, name), or without relative_root
\* at the root
AbsPath(repo_dir, relative_root, n) ==
    IF relative_root # <<".">>
    THEN Join(Join(repo_dir, relative_root), n)
    ELSE Join(repo_dir, n)

\* os.path.commonpath of two absolute normalized paths, as component lists
RECURSIVE CommonParts(_, _)
CommonParts(a, b) ==
    IF a = <<>> \/ b = <<>> \/ Head(a) # Head(b) THEN <<>>
    ELSE <<Head(a)>> \o CommonParts(Tail(a), Tail(b))

InBounds(repo_dir, root) == CommonParts(Split(repo_dir), Split(root)) = Split(repo_dir)

\* _compute_relative_root: os.path.relpath(root, repo_dir); <<>> stands for None
_compute_relative_root(repo_dir, root) ==
    IF root = repo_dir THEN <<".">>
    ELSE IF StartsWith(root, Append(repo_dir, Sep))
         THEN SubSeq(root, Len(repo_dir) + 2, Len(root))
         ELSE <<>>

\* _filter_dirs that tests the bare directory name, not its absolute path
RECURSIVE _filter_dirs_bare_name(_, _, _, _)
_filter_dirs_bare_name(dirs, relative_root, ignored, repo_dir) ==
    IF dirs = <<>> THEN <<>>
    ELSE LET rest == _filter_dirs_bare_name(Tail(dirs), relative_root, ignored, repo_dir)
         IN IF ignore_func(ignored, Head(dirs)) THEN rest ELSE <<Head(dirs)>> \o rest

\* _filter_dirs: keeps the directory names the predicate does not match
RECURSIVE _filter_dirs(_, _, _, _)
_filter_dirs(dirs, relative_root, ignored, repo_dir) ==
    IF dirs = <<>> THEN <<>>
    ELSE LET d == Head(dirs)
             rest == _filter_dirs(Tail(dirs), relative_root, ignored, repo_dir)
         IN IF ignore_func(ignored, AbsPath(repo_dir, relative_root, d))
            THEN rest
            ELSE <<d>> \o rest

\* the additional root-level filter of get_repo_structure
RECURSIVE RootFilter(_, _, _)
RootFilter(dirs, ignored, repo_dir) ==
    IF dirs = <<>> THEN <<>>
    ELSE IF ignore_func(ignored, Join(repo_dir, Head(dirs)))
         THEN RootFilter(Tail(dirs), ignored, repo_dir)
         ELSE <<Head(dirs)>> \o RootFilter(Tail(dirs), ignored, repo_dir)

\* the file loop of _build_structure on the mapping of one directory
RECURSIVE AddFiles(_, _, _, _, _)
AddFiles(level, files, relative_root, ignored, repo_dir) ==
    IF files = <<>> THEN level
    ELSE LET file == Head(files)
             next == IF ignore_func(ignored, AbsPath(repo_dir, relative_root, file))
                     THEN level
                     ELSE SetItem(level, file, Leaf(file))
         IN AddFiles(next, Tail(files), relative_root, ignored, repo_dir)

\* the setdefault navigation of _build_structure followed by the file loop
RECURSIVE BuildAt(_, _, _, _, _, _)
BuildAt(level, parts, files, relative_root, ignored, repo_dir) ==
    IF parts = <<>> THEN AddFiles(level, files, relative_root, ignored, repo_dir)
    ELSE LET part == Head(parts)
             i == KeyIndex(level, part)
         IN IF i = 0
            THEN Append(level,
                        Dict(part, BuildAt(<<>>, Tail(parts), files,
                                           relative_root, ignored, repo_dir)))
            ELSE [level EXCEPT ![i].children =
                      BuildAt(@, Tail(parts), files, relative_root, ignored, repo_dir)]

_build_structure(structure, relative_root, files, ignored, repo_dir) ==
    BuildAt(structure,
            IF relative_root # <<".">> THEN Split(relative_root) ELSE <<>>,
            files, relative_root, ignored, repo_dir)

\* names os.walk lists as dirs (directories and links to directories) and as
\* files of one directory, in enumeration order
RECURSIVE NamesOf(_, _)
NamesOf(entries, kinds) ==
    IF entries = <<>> THEN <<>>
    ELSE IF Head(entries).kind \in kinds
         THEN <<Head(entries).name>> \o NamesOf(Tail(entries), kinds)
         ELSE NamesOf(Tail(entries), kinds)

EntryNamed(entries, n) == CHOOSE e \in Range(entries) : e.name = n

\* The body of the os.walk loop for one (root, dirs, files): the pruned dirs
\* and the structure after it.
WalkBody(structure, root, dirs, files, ignored, repo_dir) ==
    LET relative_root == _compute_relative_root(repo_dir, root)
        filtered == _filter_dirs(dirs, relative_root, ignored, repo_dir)
        kept == IF relative_root = <<".">>
                THEN RootFilter(filtered, ignored, repo_dir)
                ELSE filtered
    IN IF ~InBounds(repo_dir, root)
       THEN [dirs |-> dirs, structure |-> structure]
       ELSE IF DotGit \in Range(Split(root))
       THEN [dirs |-> <<>>, structure |-> structure]
       ELSE IF relative_root = <<>>
       THEN [dirs |-> dirs, structure |-> structure]
       ELSE [dirs |-> kept,
             structure |-> _build_structure(structure, relative_root, files,
                                            ignored, repo_dir)]

\* os.walk(top, topdown=True, followlinks=False) with the loop body applied at
\* every directory: the body runs before the subdirectories it kept are
\* entered, and links are listed but never entered.
RECURSIVE Walk(_, _, _, _, _)
RECURSIVE WalkSubdirs(_, _, _, _, _, _)
Walk(structure, root, entries, ignored, repo_dir) ==
    LET body == WalkBody(structure, root,
                         NamesOf(entries, {"dir", "link"}),
                         NamesOf(entries, {"file"}), ignored, repo_dir)
    IN WalkSubdirs(body.structure, root, entries, body.dirs, ignored, repo_dir)

WalkSubdirs(structure, root, entries, dirs, ignored, repo_dir) ==
    IF dirs = <<>> THEN structure
    ELSE LET e == EntryNamed(entries, Head(dirs))
             after == IF e.kind = "link" THEN structure
                      ELSE Walk(structure, Join(root, e.name), e.children,
                                ignored, repo_dir)
         IN WalkSubdirs(after, root, entries, Tail(dirs), ignored, repo_dir)

\* get_repo_structure of a handler whose _repo_dir holds the tree `entries`
get_repo_structure(repo_dir, entries, ignored) ==
    Walk(<<>>, repo_dir, entries, ignored, repo_dir)

\* every absolute path below repo_dir on disk
RECURSIVE DiskPaths(_, _)
DiskPaths(root, entries) ==
    UNION { {Join(root, entries[i].name)}
            \cup DiskPaths(Join(root, entries[i].name), entries[i].children)
            : i \in 1..Len(entries) }

HasGitIgnore(entries) == \E e \in Range(entries) : e.name = GitIgnore

\* _get_ignore_function: nothing is ignored without a root .gitignore;
\* otherwise the predicate is whatever the patterns of that file match.
IgnorePredicates(repo_dir, entries) ==
    IF HasGitIgnore(entries)
    THEN {S \in SUBSET DiskPaths(repo_dir, entries) : Cardinality(S) <= MaxIgnored}
    ELSE {{}}

\* The root .gitignore of the checkouts the application opens holds the one
\* pattern "o": it matches every path whose last component is o.
IgnoredName == <<"o">>
_get_ignore_function(repo_dir, entries) ==
    IF HasGitIgnore(entries)
    THEN {p \in DiskPaths(repo_dir, entries) : Split(p)[Len(Split(p))] = IgnoredName}
    ELSE {}

\* ------------------------------------------------------------------ repo_handler.py: resolver

NoBranch == <<>>
GitHub == "https://github.com"

\* end of the longest run of non-separator characters that starts at i
\* (i - 1 when there is none): what [^/]+ consumes
RECURSIVE RunEnd(_, _)
RunEnd(s, i) ==
    IF i > Len(s) \/ s[i] = Sep THEN i - 1 ELSE RunEnd(s, i + 1)

\* re.match(r"(https://github\.com/[^/]+/[^/]+)(?:/tree/[^/]+)?", s).group(1),
\* <<>> when the pattern does not match
RegexBase(s) ==
    LET o == RunEnd(s, 3)
        r == RunEnd(s, o + 2)
    IN IF /\ Len(s) >= 2 /\ s[1] = GitHub /\ s[2] = Sep
          /\ o >= 3
          /\ o + 1 <= Len(s) /\ s[o + 1] = Sep
          /\ r >= o + 2
       THEN SubSeq(s, 1, r)
       ELSE <<>>

_strip_branch_from_url(repo_path) ==
    IF StartsWith(repo_path, <<GitHub>>) /\ RegexBase(repo_path) # <<>>
    THEN IF ~EndsWith(RegexBase(repo_path), ".git")
         THEN Append(RegexBase(repo_path), ".git")
         ELSE RegexBase(repo_path)
    ELSE repo_path

\* What the user can type as source and as branch.
LocalRepo == <<Sep, "w", Sep, "p">>
PlainDir == <<Sep, "w", Sep, "n">>
UrlTree == <<GitHub, Sep, "o", Sep, "r", Sep, "tree", Sep, "v">>
UrlGit == <<GitHub, Sep, "o", Sep, "r", ".git">>
CloneUrl == <<GitHub, Sep, "o", Sep, "r", ".git">>

Sources == {LocalRepo, PlainDir, UrlTree, UrlGit}
Branches == {NoBranch, <<"v">>}

\* Branches the repository has; "m" is the default branch.
RepoBranches == {<<"m">>, <<"v">>}

\* The working tree a branch checks out.
BranchTree(b) == IF b = <<"v">> THEN TreeBare ELSE TreeRemote
LocalTree(b) == IF b = <<"v">> THEN TreeBranch ELSE TreeLocal

\* tempfile.mkdtemp(prefix="git_repo_") names
TempNames == {<<Sep, "t", Sep, "1">>, <<Sep, "t", Sep, "2">>}

\* ------------------------------------------------------------------ state

VARIABLES
    repo_handler,     \* GitRepoApp.repo_handler: the resolver's fields, or NoHandler
    structure,        \* GitRepoApp.structure
    selected_files,   \* GitRepoApp.selected_files
    all_selected,     \* GitRepoApp.all_selected
    item_full_paths,  \* RepositoryGUI.item_full_paths
    item_tags,        \* RepositoryGUI.item_tags
    save_button,      \* RepositoryGUI.save_button["state"]
    toggle_button,    \* RepositoryGUI.toggle_button["state"]
    scratch,          \* scratch directories that exist on disk
    local_head,       \* branch the local checkout LocalRepo is on
    last_event,       \* the last handler that ran, on which item, and its call to the Git client
    scan,             \* one call of get_repo_structure on its own: its inputs and result
    writer,           \* one FileWriter on its own: the disk, its selection and its report
    unreachable       \* scratch names of resolvers whose constructor raised, not yet finalised

vars == <<repo_handler, structure, selected_files, all_selected, item_full_paths,
          item_tags, save_button, toggle_button, scratch, local_head,
          last_event, scan, writer, unreachable>>

NoHandler == [repo_path |-> <<>>, branch |-> NoBranch, temp_dir |-> <<>>, repo_dir |-> <<>>]
NoCall == [op |-> "none", url |-> <<>>, branch |-> NoBranch]
NoTags == {}
Struck == {"strikethrough"}

\* ------------------------------------------------------------------ main.py / gui.py: pure parts

\* _get_all_files that does not descend into directories
_get_all_files_top_level(struct, prefix) ==
    { IF prefix # <<>> THEN Join(prefix, struct[i].name) ELSE struct[i].name
      : i \in {j \in 1..Len(struct) : struct[j].kind # "dict"} }

\* GitRepoApp._get_all_files
RECURSIVE _get_all_files(_, _)
_get_all_files(struct, prefix) ==
    UNION { LET e == struct[i]
                full_path == IF prefix # <<>> THEN Join(prefix, e.name) ELSE e.name
            IN IF e.kind = "dict"
               THEN _get_all_files(e.children, full_path)
               ELSE {full_path}
            : i \in 1..Len(struct) }

\* RepositoryGUI._populate_listbox: the full paths of the items, in list order
RECURSIVE _populate_listbox(_, _)
_populate_listbox(struct, path_prefix) ==
    IF struct = <<>> THEN <<>>
    ELSE LET e == Head(struct)
             full_path == IF path_prefix # <<>> THEN Join(path_prefix, e.name) ELSE e.name
         IN (IF e.kind = "dict"
             THEN <<full_path>> \o _populate_listbox(e.children, full_path)
             ELSE <<full_path>>)
            \o _populate_listbox(Tail(struct), path_prefix)

\* GitRepoApp._is_directory
RECURSIVE IsDirParts(_, _)
IsDirParts(current, parts) ==
    IF parts = <<>> THEN TRUE
    ELSE LET i == KeyIndex(current, Head(parts))
         IN IF i = 0 \/ current[i].kind # "dict" THEN FALSE
            ELSE IsDirParts(current[i].children, Tail(parts))

_is_directory(struct, path) == IsDirParts(struct, Split(path))

\* the items _select_folder / _deselect_folder act on
FolderMatches(folder_path, item_path) ==
    LET folder_prefix == IF folder_path # <<>> THEN Append(folder_path, Sep) ELSE <<>>
    IN \/ item_path = folder_path
       \/ (folder_prefix # <<>> /\ StartsWith(item_path, folder_prefix))

\* The handlers below work on the pair g = [sel, tags]: the selection set and
\* the item tags; struct and paths are the structure and the item paths.

_select_file(g, index, path) ==
    [sel |-> g.sel \cup {path}, tags |-> [g.tags EXCEPT ![index] = NoTags]]

\* _deselect_file that strikes the item through and leaves the set alone
_deselect_file_tag_only(g, index, path) ==
    [sel |-> g.sel, tags |-> [g.tags EXCEPT ![index] = Struck]]

_deselect_file(g, index, path) ==
    [sel |-> g.sel \ {path}, tags |-> [g.tags EXCEPT ![index] = Struck]]

\* _select_folder that matches the items below the folder and not the folder
_select_folder_only_children(g, struct, paths, folder_path) ==
    LET hit == {i \in 1..Len(paths) : StartsWith(paths[i], Append(folder_path, Sep))}
    IN [sel |-> g.sel \cup {paths[i] : i \in {j \in hit : ~_is_directory(struct, paths[j])}},
        tags |-> [i \in 1..Len(paths) |-> IF i \in hit THEN NoTags ELSE g.tags[i]]]

\* _select_folder without the _is_directory test
_select_folder_adds_dirs(g, struct, paths, folder_path) ==
    LET hit == {i \in 1..Len(paths) : FolderMatches(folder_path, paths[i])}
    IN [sel |-> g.sel \cup {paths[i] : i \in hit},
        tags |-> [i \in 1..Len(paths) |-> IF i \in hit THEN NoTags ELSE g.tags[i]]]

_select_folder(g, struct, paths, folder_path) ==
    LET hit == {i \in 1..Len(paths) : FolderMatches(folder_path, paths[i])}
    IN [sel |-> g.sel \cup {paths[i] : i \in {j \in hit : ~_is_directory(struct, paths[j])}},
        tags |-> [i \in 1..Len(paths) |-> IF i \in hit THEN NoTags ELSE g.tags[i]]]

_deselect_folder(g, struct, paths, folder_path) ==
    LET hit == {i \in 1..Len(paths) : FolderMatches(folder_path, paths[i])}
    IN [sel |-> g.sel \ {paths[i] : i \in {j \in hit : ~_is_directory(struct, paths[j])}},
        tags |-> [i \in 1..Len(paths) |-> IF i \in hit THEN Struck ELSE g.tags[i]]]

\* on_file_select for the item at a valid index: the selection and tags after it
Clicked(g, struct, paths, index) ==
    LET full_path == paths[index]
        is_dir == _is_directory(struct, full_path)
        is_selected == "strikethrough" \notin g.tags[index]
    IN IF is_dir
       THEN IF is_selected
            THEN _deselect_folder(g, struct, paths, full_path)
            ELSE _select_folder(g, struct, paths, full_path)
       ELSE IF is_selected
            THEN _deselect_file(g, index, full_path)
            ELSE _select_file(g, index, full_path)

\* _update_all_visuals
\* _update_all_visuals that clears the tags whatever the flag
_update_all_visuals_clear(flag, n) == [i \in 1..n |-> NoTags]

_update_all_visuals(flag, n) == [i \in 1..n |-> IF flag THEN NoTags ELSE Struck]

\* update_save_button_state
ButtonState(enabled) == IF enabled THEN "normal" ELSE "disabled"

\* ------------------------------------------------------------------ actions

\* ------------------------------------------------------------------ repo_handler.py: file contents

\* What the calls get_file_content makes answer for one file: whether
\* os.path.getsize finds it, its size in bytes, whether open succeeds, what
\* charset_normalizer.detect answers for its first 64 KiB (confidence in
\* percent; known is FALSE where detect leaves the confidence at None),
\* whether the whole file decodes in the detected encoding, and its text.
FileAttr(exists, size, readable, encoding, known, confidence, decodable, text) ==
    [exists |-> exists, size |-> size, readable |-> readable,
     result |-> [encoding |-> encoding, known |-> known, confidence |-> confidence],
     decodable |-> decodable, text |-> text]

Marker == "Binary file - contents omitted"
NoEncoding == "None"
SizeLimit == 1024 * 1024
ConfidenceThreshold == 95

\* the size test with the limit itself counted as too large
TooLarge_inclusive(file_size) == file_size >= SizeLimit

\* file_size > 1024 * 1024
TooLarge(file_size) == file_size > SizeLimit

\* RepoHandler._detect_encoding: open(full_path, "rb") and the comparison of
\* the confidence are outside any try
_detect_encoding(f) ==
    IF ~f.readable
    THEN [raised |-> "PermissionError", encoding |-> NoEncoding, detected |-> FALSE]
    ELSE IF ~f.result.known
    THEN [raised |-> "TypeError", encoding |-> NoEncoding, detected |-> TRUE]
    ELSE [raised |-> "none",
          encoding |-> IF f.result.confidence > ConfidenceThreshold
                       THEN f.result.encoding ELSE NoEncoding,
          detected |-> TRUE]

\* RepoHandler._read_text_file: UnicodeDecodeError and IOError become the marker
_read_text_file(f, encoding) ==
    IF f.readable /\ f.decodable THEN f.text ELSE Marker

\* RepoHandler.get_file_content: what it returns or raises, and whether it
\* opened the file and ran the detection on the way
get_file_content(f) ==
    IF ~f.exists
    THEN [raised |-> "FileNotFoundError", content |-> "", opened |-> FALSE,
          detected |-> FALSE]
    ELSE IF TooLarge(f.size)
    THEN [raised |-> "none", content |-> Marker, opened |-> FALSE, detected |-> FALSE]
    ELSE LET d == _detect_encoding(f)
         IN IF d.raised # "none"
            THEN [raised |-> d.raised, content |-> "", opened |-> TRUE,
                  detected |-> d.detected]
            ELSE IF d.encoding # NoEncoding
            THEN [raised |-> "none", content |-> _read_text_file(f, d.encoding),
                  opened |-> TRUE, detected |-> TRUE]
            ELSE [raised |-> "none", content |-> Marker, opened |-> TRUE,
                  detected |-> TRUE]

\* ------------------------------------------------------------------ file_writer.py

\* str < str: by code point, character by character
Alphabet == <<".", "/", "a", "b", "c">>
Ord(c) == CHOOSE i \in 1..Len(Alphabet) : Alphabet[i] = c

RECURSIVE StrLess(_, _)
StrLess(s, t) ==
    IF t = <<>> THEN FALSE
    ELSE IF s = <<>> THEN TRUE
    ELSE IF Head(s) # Head(t) THEN Ord(Head(s)) < Ord(Head(t))
    ELSE StrLess(Tail(s), Tail(t))

\* the set of strings in descending order
RECURSIVE sorted_descending(_)
sorted_descending(S) ==
    IF S = {} THEN <<>>
    ELSE LET greatest == CHOOSE s \in S : \A t \in S \ {s} : StrLess(t, s)
         IN <<greatest>> \o sorted_descending(S \ {greatest})

\* sorted(a set of strings)
RECURSIVE sorted(_)
sorted(S) ==
    IF S = {} THEN <<>>
    ELSE LET least == CHOOSE s \in S : \A t \in S \ {s} : StrLess(s, t)
         IN <<least>> \o sorted(S \ {least})

\* FileWriter._get_all_files
RECURSIVE FileWriter_get_all_files(_, _)
FileWriter_get_all_files(struct, prefix) ==
    UNION { LET e == struct[i]
                full_path == IF prefix # <<>> THEN Join(prefix, e.name) ELSE e.name
            IN IF e.kind = "dict"
               THEN FileWriter_get_all_files(e.children, full_path)
               ELSE {full_path}
            : i \in 1..Len(struct) }

\* FileWriter._write_structure: one line per entry, directories followed by
\* their own entries one level deeper
RECURSIVE _write_structure(_, _)
_write_structure(struct, depth) ==
    IF struct = <<>> THEN <<>>
    ELSE LET e == Head(struct)
         IN IF e.kind = "dict"
            THEN <<[depth |-> depth, name |-> e.name, dir |-> TRUE]>>
                 \o _write_structure(e.children, depth + 1)
                 \o _write_structure(Tail(struct), depth)
            ELSE <<[depth |-> depth, name |-> e.name, dir |-> FALSE]>>
                 \o _write_structure(Tail(struct), depth)

\* The loop of FileWriter._write_file_contents over the sorted paths: each
\* call of get_file_content is recorded; a block is written when it returns,
\* and the loop ends where it raises.
RECURSIVE WriteBlocks(_, _, _)
WriteBlocks(disk, sorted_files, report) ==
    IF sorted_files = <<>> THEN report
    ELSE LET file_path == Head(sorted_files)
             r == get_file_content(disk[file_path])
             call == [path |-> file_path, raised |-> r.raised, content |-> r.content,
                      opened |-> r.opened, detected |-> r.detected]
         IN IF r.raised # "none"
            THEN [report EXCEPT !.calls = Append(@, call), !.raised = r.raised]
            ELSE WriteBlocks(disk, Tail(sorted_files),
                     [report EXCEPT !.calls = Append(@, call),
                                    !.blocks = Append(@, [path |-> file_path,
                                                          content |-> r.content])])

_write_file_contents(disk, selected) ==
    WriteBlocks(disk, sorted(selected),
                [lines |-> <<>>, blocks |-> <<>>, calls |-> <<>>, raised |-> "none"])

\* The repository the writer reads: three files, those of them that exist
WriterRoot == <<Sep, "w", Sep, "q">>
PathB == <<"b">>
PathAB == <<"a", "b">>
PathAC == <<"a", Sep, "c">>
WriterPaths == {PathB, PathAB, PathAC}
Present(disk, path, name) == IF disk[path].exists THEN <<File(name)>> ELSE <<>>
WriterTree(disk) ==
    Present(disk, PathB, <<"b">>) \o Present(disk, PathAB, <<"a", "b">>)
    \o << Dir(<<"a">>, Present(disk, PathAC, <<"c">>)) >>

\* FileWriter.save_to_file: the tree lines, then the blocks of the selection,
\* or of every file of the structure when the selection is empty
save_to_file(disk, selected_paths) ==
    LET struct == get_repo_structure(WriterRoot, WriterTree(disk), {})
        all_files == FileWriter_get_all_files(struct, <<>>)
        chosen == IF selected_paths # {} THEN selected_paths ELSE all_files
    IN [_write_file_contents(disk, chosen) EXCEPT !.lines = _write_structure(struct, 0)]

\* The files the disk can hold
PlainText == FileAttr(TRUE, 5, TRUE, "utf_8", TRUE, 100, TRUE, "text")
EmptyFile == FileAttr(TRUE, 0, TRUE, "utf_8", TRUE, 100, TRUE, "")
Missing == FileAttr(FALSE, 0, FALSE, NoEncoding, FALSE, 0, FALSE, "")
Unreadable == FileAttr(TRUE, 5, FALSE, NoEncoding, FALSE, 0, FALSE, "")
AtLimit == FileAttr(TRUE, SizeLimit, TRUE, "utf_8", TRUE, 100, TRUE, "long")
OverLimit == FileAttr(TRUE, SizeLimit + 1, TRUE, "utf_8", TRUE, 100, TRUE, "longer")
OverLimitUnreadable == FileAttr(TRUE, SizeLimit + 1, FALSE, NoEncoding, FALSE, 0, FALSE, "")
Undecodable == FileAttr(TRUE, SizeLimit, TRUE, "utf_8", TRUE, 100, FALSE, "")
NoResultNone == FileAttr(TRUE, 5, TRUE, NoEncoding, FALSE, 0, FALSE, "")
NoResultZero == FileAttr(TRUE, 5, TRUE, NoEncoding, TRUE, 0, FALSE, "")
Doubtful == FileAttr(TRUE, 5, TRUE, "cp1252", TRUE, ConfidenceThreshold, TRUE, "text")
Files == {PlainText, EmptyFile, Missing, Unreadable, AtLimit, OverLimit,
          OverLimitUnreadable, Undecodable, NoResultNone, NoResultZero, Doubtful}
Disks ==
    {d \in [WriterPaths -> Files] :
        Cardinality({p \in WriterPaths : d[p] # PlainText}) <= MaxUnusual}

IdleWriter == [disk |-> [p \in WriterPaths |-> PlainText], selected |-> {},
               done |-> FALSE,
               report |-> [lines |-> <<>>, blocks |-> <<>>, calls |-> <<>>,
                           raised |-> "none"]]

IdleScan == [repo_dir |-> <<>>, entries |-> <<>>, ignored |-> {}, done |-> FALSE,
             result |-> <<>>]

\* The (root, tree) pairs a scan can meet: the local checkout on either
\* branch, a clone of either branch in a scratch directory, and two more
\* for get_repo_structure on its own.
GitParentRoot == <<Sep, "w", Sep, ".git", Sep, "p">>
AppRoots ==
    {<<LocalRepo, LocalTree(b)>> : b \in RepoBranches}
    \cup {<<t, BranchTree(b)>> : t \in TempNames, b \in RepoBranches}
ScanRoots == AppRoots \cup {<<LocalRepo, TreeDeep>>, <<GitParentRoot, TreeLocal>>}
ScanInputs ==
    UNION { {<<x[1], x[2], ignored>> : ignored \in IgnorePredicates(x[1], x[2])}
            : x \in ScanRoots }

\* GitRepoApp.__init__ and RepositoryGUI.__init__
Init ==
    /\ repo_handler = NoHandler
    /\ structure = <<>>
    /\ selected_files = {}
    /\ all_selected = TRUE
    /\ item_full_paths = <<>>
    /\ item_tags = <<>>
    /\ save_button = "disabled"
    /\ toggle_button = "disabled"
    /\ scratch = {}
    /\ local_head = <<"m">>
    /\ last_event = [op |-> "init", index |-> 0, call |-> NoCall]
    /\ scan = IdleScan
    /\ writer = IdleWriter
    /\ unreachable = {}

\* os.path.isdir of what the user typed
IsLocalDir(path) == path \in {LocalRepo, PlainDir}

\* the entries of a local directory
LocalEntries(path, head) == IF path = LocalRepo THEN LocalTree(head) ELSE TreePlain

\* __del__ without the rmtree
AfterDel_no_removal(handler, dirs) == dirs

\* RepositoryHandler.__del__ of a handler that is dropped
AfterDel(handler, dirs) ==
    IF handler.temp_dir # <<>> /\ handler.temp_dir \in dirs
    THEN dirs \ {handler.temp_dir}
    ELSE dirs

\* The part of process_repo after the handler was constructed: the scan, the
\* list, the selection. The old handler was dropped when the attribute was
\* rebound. A scan that raises (the root .gitignore cannot be read or parsed)
\* leaves the rest of the application untouched.
Loaded(handler, entries, dirs, call) ==
    /\ repo_handler' = handler
    /\ scratch' = AfterDel(repo_handler, dirs)
    /\ \/ LET built == get_repo_structure(handler.repo_dir, entries,
                                            _get_ignore_function(handler.repo_dir, entries))
                paths == _populate_listbox(built, <<>>)
            IN /\ structure' = built
               /\ item_full_paths' = paths
               /\ toggle_button' = "normal"
               /\ selected_files' = _get_all_files(built, <<>>)
               /\ all_selected' = TRUE
               /\ item_tags' = _update_all_visuals(TRUE, Len(paths))
               /\ save_button' = ButtonState(TRUE)
               /\ last_event' = [op |-> "process_repo", index |-> 0, call |-> call]
       \/ /\ HasGitIgnore(entries)
          /\ last_event' = [op |-> "scan_failed", index |-> 0, call |-> call]
          /\ UNCHANGED <<structure, item_full_paths, toggle_button, selected_files,
                         all_selected, item_tags, save_button>>

\* The constructor raised: process_repo stops at its first statement.
Failed(why, call) ==
    /\ last_event' = [op |-> why, index |-> 0, call |-> call]
    /\ UNCHANGED <<repo_handler, structure, selected_files, all_selected,
                   item_full_paths, item_tags, save_button, toggle_button>>

\* _setup_local_repo that checks the branch out before it looks for .git
ProcessLocal_checkout_first(repo_path, branch) ==
    /\ IsLocalDir(repo_path)
    /\ UNCHANGED <<scan, writer, unreachable, scratch, local_head>>
    /\ IF branch # NoBranch
       THEN Failed("branch_not_found",
                   [op |-> "checkout", url |-> repo_path, branch |-> branch])
       ELSE Failed("not_a_git_repository", NoCall)

\* process_repo on an existing local directory: _setup_local_repo. A checkout
\* succeeds only for a branch that exists, and may fail for any.
ProcessLocal(repo_path, branch) ==
    LET path == _strip_branch_from_url(repo_path)
        handler == [repo_path |-> path, branch |-> branch, temp_dir |-> <<>>,
                    repo_dir |-> path]
        checkout == [op |-> "checkout", url |-> path, branch |-> branch]
    IN /\ IsLocalDir(path)
       /\ UNCHANGED <<scan, writer, unreachable>>
       /\ IF ~\E e \in Range(LocalEntries(path, local_head)) : e.name = DotGit
          THEN /\ Failed("not_a_git_repository", NoCall)
               /\ UNCHANGED <<scratch, local_head>>
          ELSE IF branch = NoBranch
          THEN /\ Loaded(handler, LocalEntries(path, local_head), scratch, NoCall)
               /\ UNCHANGED local_head
          ELSE \/ /\ branch \in RepoBranches
                  /\ local_head' = branch
                  /\ Loaded(handler, LocalEntries(path, branch), scratch, checkout)
               \/ /\ Failed("branch_not_found", checkout)
                  /\ UNCHANGED <<scratch, local_head>>

\* tempfile.mkdtemp: a name not in use; which one is immaterial, so the first
\* free one is taken
mkdtemp(used) ==
    IF <<Sep, "t", Sep, "1">> \notin used
    THEN <<Sep, "t", Sep, "1">>
    ELSE CHOOSE t \in TempNames \ used : TRUE

\* process_repo on anything else: _clone_remote_repo creates the scratch
\* directory, then clones into it. The clone succeeds only for a repository
\* and branch that exist, and may fail for any: with git.GitCommandError,
\* which the except clause catches, removing the directory, or with anything
\* else clone_from raises, which passes the clause by. Either way the
\* constructor raises and the resolver it was building is left to __del__.
ProcessRemote(repo_path, branch) ==
    LET path == _strip_branch_from_url(repo_path)
        clone == [op |-> "clone", url |-> path, branch |-> branch]
    IN /\ ~IsLocalDir(path)
       /\ UNCHANGED <<scan, writer, local_head>>
       /\ TempNames \ (scratch \cup unreachable) # {}
       /\ LET temp_dir == mkdtemp(scratch \cup unreachable) IN
            LET handler == [repo_path |-> path, branch |-> branch,
                            temp_dir |-> temp_dir, repo_dir |-> temp_dir]
            IN \/ /\ path = CloneUrl
                  /\ branch \in RepoBranches \cup {NoBranch}
                  /\ Loaded(handler, BranchTree(branch), scratch \cup {temp_dir}, clone)
                  /\ UNCHANGED unreachable
               \/ /\ Cardinality(unreachable) < MaxUnreachable
                  /\ Failed("clone_failed", clone)
                  /\ unreachable' = unreachable \cup {temp_dir}
                  /\ UNCHANGED scratch
               \/ /\ Cardinality(unreachable) < MaxUnreachable
                  /\ Failed("clone_error", clone)
                  /\ unreachable' = unreachable \cup {temp_dir}
                  /\ scratch' = scratch \cup {temp_dir}

process_repo == \E repo_path \in Sources, branch \in Branches :
    ProcessLocal(repo_path, branch) \/ ProcessRemote(repo_path, branch)

\* RepositoryHandler.__del__ of a resolver whose constructor raised, whenever
\* the interpreter gets to it
__del__ ==
    \E temp_dir \in unreachable :
        /\ scratch' = AfterDel([temp_dir |-> temp_dir], scratch)
        /\ unreachable' = unreachable \ {temp_dir}
        /\ UNCHANGED <<repo_handler, structure, selected_files, all_selected,
                       item_full_paths, item_tags, save_button, toggle_button,
                       local_head, last_event, scan, writer>>

\* on_file_select: a click at any height of the list
on_file_select ==
    \E index \in 1..Len(item_full_paths) :
        LET g == Clicked([sel |-> selected_files, tags |-> item_tags],
                         structure, item_full_paths, index)
        IN /\ selected_files' = g.sel
           /\ item_tags' = g.tags
           /\ save_button' = ButtonState(Cardinality(g.sel) > 0)
           /\ last_event' = [op |-> "on_file_select", index |-> index, call |-> NoCall]
           /\ UNCHANGED <<repo_handler, structure, all_selected, item_full_paths,
                          toggle_button, scratch, local_head, scan, writer,
                          unreachable>>

\* toggle_all_selection; the button is disabled until a structure was shown
toggle_all_selection ==
    /\ toggle_button = "normal"
    /\ all_selected' = ~all_selected
    /\ selected_files' = IF all_selected' THEN _get_all_files(structure, <<>>) ELSE {}
    /\ item_tags' = _update_all_visuals(all_selected', Len(item_full_paths))
    /\ save_button' = ButtonState(all_selected')
    /\ last_event' = [op |-> "toggle_all_selection", index |-> 0, call |-> NoCall]
    /\ UNCHANGED <<repo_handler, structure, item_full_paths, toggle_button,
                   scratch, local_head, scan, writer, unreachable>>

\* GitRepoApp.save_to_file, the command of the Save button, which Tk runs
\* only while the button is enabled. With a selection it builds a FileWriter
\* and asks it for get_user_home_directory, which FileWriter does not have:
\* the AttributeError ends the handler before FileWriter.save_to_file.
GitRepoApp_save_to_file ==
    /\ save_button = "normal"
    /\ last_event' = [op |-> IF selected_files = {} THEN "save_warning"
                              ELSE "save_attribute_error",
                      index |-> 0, call |-> NoCall]
    /\ UNCHANGED <<repo_handler, structure, selected_files, all_selected,
                   item_full_paths, item_tags, save_button, toggle_button, scratch,
                   local_head, scan, writer, unreachable>>

Next ==
    \/ process_repo
    \/ on_file_select
    \/ toggle_all_selection
    \/ GitRepoApp_save_to_file
    \/ __del__

Spec == Init /\ [][Next]_vars

\* ------------------------------------------------------------------ get_repo_structure on its own

\* Any of the trees at any of the roots, under any ignore predicate the root
\* .gitignore can stand for.
InitScan ==
    /\ repo_handler = NoHandler
    /\ structure = <<>>
    /\ selected_files = {}
    /\ all_selected = TRUE
    /\ item_full_paths = <<>>
    /\ item_tags = <<>>
    /\ save_button = "disabled"
    /\ toggle_button = "disabled"
    /\ scratch = {}
    /\ local_head = <<"m">>
    /\ last_event = [op |-> "init", index |-> 0, call |-> NoCall]
    /\ writer = IdleWriter
    /\ unreachable = {}
    /\ \E x \in ScanInputs :
         scan = [repo_dir |-> x[1], entries |-> x[2], ignored |-> x[3],
                 done |-> FALSE, result |-> <<>>]

RunScan ==
    /\ ~scan.done
    /\ scan' = [scan EXCEPT !.done = TRUE,
                            !.result = get_repo_structure(scan.repo_dir, scan.entries,
                                                          scan.ignored)]
    /\ UNCHANGED <<repo_handler, structure, selected_files, all_selected,
                   item_full_paths, item_tags, save_button, toggle_button, scratch,
                   local_head, last_event, writer, unreachable>>

SpecScan == InitScan /\ [][RunScan]_vars

\* ------------------------------------------------------------------ FileWriter on its own

\* Any disk and any selection of the three paths, files deleted after the
\* scan included.
InitWriter ==
    /\ repo_handler = NoHandler
    /\ structure = <<>>
    /\ selected_files = {}
    /\ all_selected = TRUE
    /\ item_full_paths = <<>>
    /\ item_tags = <<>>
    /\ save_button = "disabled"
    /\ toggle_button = "disabled"
    /\ scratch = {}
    /\ local_head = <<"m">>
    /\ last_event = [op |-> "init", index |-> 0, call |-> NoCall]
    /\ scan = IdleScan
    /\ unreachable = {}
    /\ \E d \in Disks, s \in SUBSET WriterPaths :
         writer = [IdleWriter EXCEPT !.disk = d, !.selected = s]

RunWriter ==
    /\ ~writer.done
    /\ writer' = [writer EXCEPT !.done = TRUE,
                                !.report = save_to_file(writer.disk, writer.selected)]
    /\ UNCHANGED <<repo_handler, structure, selected_files, all_selected,
                   item_full_paths, item_tags, save_button, toggle_button, scratch,
                   local_head, last_event, scan, unreachable>>

SpecWriter == InitWriter /\ [][RunWriter]_vars

\* ------------------------------------------------------------------ vocabulary of the properties

\* The files and the directories of a structure, each as the list of entry
\* names from the root down to it.
RECURSIVE LeafParts(_)
LeafParts(struct) ==
    UNION { IF struct[i].kind = "dict"
            THEN {<<struct[i].name>> \o q : q \in LeafParts(struct[i].children)}
            ELSE {<<struct[i].name>>}
            : i \in 1..Len(struct) }

RECURSIVE DictParts(_)
DictParts(struct) ==
    UNION { IF struct[i].kind = "dict"
            THEN {<<struct[i].name>>}
                 \cup {<<struct[i].name>> \o q : q \in DictParts(struct[i].children)}
            ELSE {}
            : i \in 1..Len(struct) }

\* p lies strictly below d (both as lists of names)
Below(p, d) == Len(p) > Len(d) /\ SubSeq(p, 1, Len(d)) = d

Items == 1..Len(item_full_paths)
DirItems == {i \in Items : Split(item_full_paths[i]) \in DictParts(structure)}
FileItems == {i \in Items : Split(item_full_paths[i]) \in LeafParts(structure)}

\* the full paths of the files below the directory shown as item i
DescendantFiles(i) ==
    {item_full_paths[j] : j \in {k \in FileItems :
        Below(Split(item_full_paths[k]), Split(item_full_paths[i]))}}

IsStruck(tags, i) == "strikethrough" \in tags[i]

Now == [sel |-> selected_files, tags |-> item_tags]
Click(g, i) == Clicked(g, structure, item_full_paths, i)

\* ------------------------------------------------------------------ C1

\* C1 as stated: in every reachable state, two consecutive clicks on any
\* directory item leave every descendant file selected exactly if it was
\* selected before the two clicks.
C1_DoubleClickRestores ==
    \A i \in DirItems : \A f \in DescendantFiles(i) :
        (f \in Click(Click(Now, i), i).sel) <=> (f \in selected_files)

\* C1 amended: two consecutive clicks on a directory item put every descendant
\* file into the state the directory item displayed before them (selected
\* exactly if the item was not struck through) and leave the item's own tag as
\* it was; so they restore exactly the descendant files whose state agreed
\* with the directory's displayed state.
C1_DoubleClickRestoresDisplayed ==
    \A i \in DirItems :
        LET after == Click(Click(Now, i), i)
        IN /\ IsStruck(after.tags, i) <=> IsStruck(item_tags, i)
           /\ \A f \in DescendantFiles(i) :
                (f \in after.sel) <=> ~IsStruck(item_tags, i)

\* A directory with two descendant files, one of them nested, has just been
\* clicked back to all-selected after an earlier click.
C1_Witness ==
    \E i \in DirItems :
        /\ last_event = [op |-> "on_file_select", index |-> i, call |-> NoCall]
        /\ Cardinality(DescendantFiles(i)) >= 2
        /\ ~IsStruck(item_tags, i)
        /\ DescendantFiles(i) \subseteq selected_files
        /\ ~all_selected

\* ------------------------------------------------------------------ C2

\* C2 as stated: a click on a directory item goes by whether any descendant
\* file is selected: if one is, none is afterwards; if none is, all are.
C2_DirClickFollowsDescendants ==
    [][\A i \in DirItems :
          (on_file_select
           /\ last_event' = [op |-> "on_file_select", index |-> i, call |-> NoCall]
           /\ structure' = structure)
          => /\ (DescendantFiles(i) \cap selected_files # {}
                   => DescendantFiles(i) \cap selected_files' = {})
             /\ (DescendantFiles(i) \cap selected_files = {}
                   => DescendantFiles(i) \subseteq selected_files')]_vars

\* ------------------------------------------------------------------ C3

\* C3: a click on a file item flips the membership of that file's full path in
\* the selection set and changes the membership of no other path.
C3_FileClickFlipsOne ==
    [][\A i \in FileItems :
          (on_file_select
           /\ last_event' = [op |-> "on_file_select", index |-> i, call |-> NoCall]
           /\ structure' = structure)
          => /\ (item_full_paths[i] \in selected_files')
                  <=> (item_full_paths[i] \notin selected_files)
             /\ selected_files' \ {item_full_paths[i]}
                  = selected_files \ {item_full_paths[i]}]_vars

\* A file was clicked back into a selection that still lacks another file.
C3_Witness ==
    \E i \in FileItems :
        /\ last_event = [op |-> "on_file_select", index |-> i, call |-> NoCall]
        /\ item_full_paths[i] \in selected_files
        /\ \E j \in FileItems : item_full_paths[j] \notin selected_files

\* ------------------------------------------------------------------ C4

\* the tree a handler's _repo_dir holds
HandlerTree ==
    IF repo_handler.temp_dir # <<>> THEN BranchTree(repo_handler.branch)
    ELSE LocalEntries(repo_handler.repo_dir, local_head)

\* C4: after a successful process_repo the structure is the one built for the
\* new handler, the selection set is exactly the set of full paths of its
\* files, and no item of the list is struck through.
C4_LoadSelectsAll ==
    last_event.op = "process_repo" =>
        /\ structure = get_repo_structure(repo_handler.repo_dir, HandlerTree,
               _get_ignore_function(repo_handler.repo_dir, HandlerTree))
        /\ {Split(f) : f \in selected_files} = LeafParts(structure)
        /\ Cardinality(selected_files) = Cardinality(LeafParts(structure))
        /\ Len(item_tags) = Len(item_full_paths)
        /\ \A i \in Items : ~IsStruck(item_tags, i)

\* A repository with a nested file has just been loaded.
C4_Witness ==
    /\ last_event.op = "process_repo"
    /\ \E f \in selected_files : Len(Split(f)) >= 3
    /\ DirItems # {}

\* ------------------------------------------------------------------ C5

\* C5: the selection set holds only full paths of files of the structure
\* currently held: no directory path and no path absent from it.
C5_SelectionOnlyFiles ==
    \A f \in selected_files : Split(f) \in LeafParts(structure)

\* After a directory was clicked to select it, the selection holds its files
\* and other files are still deselected.
C5_Witness ==
    \E i \in DirItems :
        /\ last_event = [op |-> "on_file_select", index |-> i, call |-> NoCall]
        /\ DescendantFiles(i) # {}
        /\ DescendantFiles(i) \subseteq selected_files
        /\ \E j \in FileItems : item_full_paths[j] \notin selected_files

\* ------------------------------------------------------------------ C6

\* the absolute path of the entry of the scanned root with the given names
RECURSIVE JoinParts(_, _)
JoinParts(root, parts) ==
    IF parts = <<>> THEN root ELSE JoinParts(Join(root, Head(parts)), Tail(parts))

ScanEntries == LeafParts(scan.result) \cup DictParts(scan.result)

\* C6: the structure get_repo_structure returns holds no file and no directory
\* whose absolute path the ignore predicate matches, and no entry below a
\* directory the predicate matches.
C6_NoIgnoredEntry ==
    scan.done =>
        \A p \in ScanEntries : \A n \in 1..Len(p) :
            JoinParts(scan.repo_dir, SubSeq(p, 1, n)) \notin scan.ignored

\* A scan has run whose predicate matches a nested directory holding a file and
\* a file beside it, and whose result still lists another file of that level.
C6_Witness ==
    /\ scan.done
    /\ \E d \in scan.ignored, f \in scan.ignored :
         /\ d # f
         /\ \E g \in DiskPaths(scan.repo_dir, scan.entries) :
              StartsWith(g, Append(d, Sep))
         /\ Len(Split(d)) = Len(Split(f))
         /\ Len(Split(d)) >= Len(Split(scan.repo_dir)) + 2
    /\ \E p \in LeafParts(scan.result) : Len(p) >= 1
    /\ scan.result # <<>>

\* ------------------------------------------------------------------ C7

\* C7 as stated: the structure get_repo_structure returns has no entry named
\* .git at any nesting level (and so none below one).
C7_NoDotGitEntry ==
    scan.done => \A p \in ScanEntries : DotGit \notin Range(p)

\* ------------------------------------------------------------------ C8

\* the read failures the claim lists: the file is missing, cannot be opened,
\* does not decode in the detected encoding, or the detection has no result
Troubled(f) ==
    \/ ~f.exists
    \/ ~f.readable
    \/ ~f.decodable
    \/ f.result.encoding = NoEncoding

\* C8: when an export of a non-empty selection has run, no call of
\* get_file_content has raised, every call on a file that is missing,
\* unreadable, undecodable or without a detection result has returned the
\* binary marker, and the blocks written are those of all the selected
\* paths, in sorted order.
C8_ReadFailuresAbsorbed ==
    (writer.done /\ writer.selected # {}) =>
        /\ writer.report.raised = "none"
        /\ \A i \in 1..Len(writer.report.calls) :
             Troubled(writer.disk[writer.report.calls[i].path])
                 => /\ writer.report.calls[i].raised = "none"
                    /\ writer.report.calls[i].content = Marker
        /\ [i \in 1..Len(writer.report.blocks) |-> writer.report.blocks[i].path]
               = sorted(writer.selected)

\* ------------------------------------------------------------------ C9

\* C9: in every export that has run, each call of get_file_content on a file
\* larger than 1024 * 1024 bytes returned the binary marker without raising,
\* without opening the file and without running the detection, whatever the
\* file holds; each call on a file of exactly 1024 * 1024 bytes went on to
\* open the file.
C9_OverLimitIsMarker ==
    writer.done =>
        \A i \in 1..Len(writer.report.calls) :
            LET call == writer.report.calls[i]
                f == writer.disk[call.path]
            IN /\ (f.exists /\ f.size > 1024 * 1024)
                    => /\ call.raised = "none"
                       /\ call.content = Marker
                       /\ ~call.opened
                       /\ ~call.detected
               /\ (f.exists /\ f.size = 1024 * 1024) => call.opened

\* an export that has read a text file over the limit, written as the
\* marker, and a text file of exactly the limit, written as its text
C9_Witness ==
    /\ writer.done
    /\ \E i, j \in 1..Len(writer.report.blocks) :
         /\ writer.disk[writer.report.blocks[i].path] = OverLimit
         /\ writer.report.blocks[i].content = Marker
         /\ writer.disk[writer.report.blocks[j].path] = AtLimit
         /\ writer.report.blocks[j].content = AtLimit.text

\* ------------------------------------------------------------------ C10

\* C10: every load of https://github.com/o/r/tree/v given without a branch
\* makes the clone call on https://github.com/o/r.git with v as its branch.
C10_TreeBranchCloned ==
    [][ProcessRemote(UrlTree, NoBranch)
          => last_event'.call = [op |-> "clone", url |-> CloneUrl, branch |-> <<"v">>]]_vars

\* ------------------------------------------------------------------ C11

\* C11: every step in which a constructor raised after it had created a
\* scratch directory is a failed clone, and that directory does not exist
\* when the step is over.
C11_CloneFailureRemovesScratch ==
    [][unreachable' # unreachable /\ unreachable \subseteq unreachable'
          => /\ last_event'.op \in {"clone_failed", "clone_error"}
             /\ (unreachable' \ unreachable) \cap scratch' = {}]_vars

\* ------------------------------------------------------------------ C12

\* C12: in every step, (a) a scratch directory appears only if the step made
\* a clone call, on a source that is not a local directory; (b) when the
\* application's resolver is replaced, or a resolver whose constructor raised
\* is finalised, its scratch directory does not exist afterwards; (c)
\* finalising a resolver whose scratch directory is already gone changes no
\* directory; (d) replacing a resolver built from a local path removes no
\* directory.
C12_ScratchLifecycle ==
    [][/\ ~(scratch' \subseteq scratch)
            => /\ last_event'.call.op = "clone"
               /\ ~IsLocalDir(last_event'.call.url)
       /\ (repo_handler' # repo_handler /\ repo_handler.temp_dir # <<>>)
            => repo_handler.temp_dir \notin scratch'
       /\ \A t \in unreachable \ unreachable' :
            /\ t \notin scratch'
            /\ t \notin scratch => scratch' = scratch
       /\ (repo_handler' # repo_handler /\ repo_handler.temp_dir = <<>>)
            => scratch \subseteq scratch']_vars

\* a second clone has replaced the resolver of a first one, and only the
\* scratch directory of the second exists
C12_Witness ==
    /\ last_event.op = "process_repo"
    /\ repo_handler.temp_dir = <<Sep, "t", Sep, "2">>
    /\ scratch = {<<Sep, "t", Sep, "2">>}
    /\ unreachable = {}

\* ------------------------------------------------------------------ C13

\* C13: every process_repo on the local directory without a .git entry, with
\* or without a branch, ends with the not-a-Git-repository error, has made no
\* checkout call, and has not entered get_repo_structure: the application
\* still holds the resolver and the structure it held, and the checkout is on
\* the branch it was on.
C13_NotAGitBeforeWalk ==
    [][(\E branch \in Branches : ProcessLocal(PlainDir, branch))
          => /\ last_event'.op = "not_a_git_repository"
             /\ last_event'.call = NoCall
             /\ local_head' = local_head
             /\ repo_handler' = repo_handler
             /\ structure' = structure
             /\ item_full_paths' = item_full_paths]_vars

\* the error was raised while a repository was loaded, which is still shown
C13_Witness ==
    /\ last_event.op = "not_a_git_repository"
    /\ repo_handler # NoHandler
    /\ structure # <<>>

\* ------------------------------------------------------------------ C14

\* the paths of the blocks of the report, in the order they were written
BlockPaths == [i \in 1..Len(writer.report.blocks) |-> writer.report.blocks[i].path]

\* C14 as claimed: when an export has run, the blocks written are those of
\* the paths of the selection handed to the writer, the empty selection
\* included, one each, in ascending order.
C14_BlocksAreSelection ==
    writer.done =>
        /\ Range(BlockPaths) = writer.selected
        /\ Len(BlockPaths) = Cardinality(writer.selected)
        /\ \A i, j \in 1..Len(BlockPaths) : i < j => StrLess(BlockPaths[i], BlockPaths[j])

\* the paths the writer goes through: the selection, or every file that
\* exists in the repository when the selection is empty
Chosen ==
    IF writer.selected # {} THEN writer.selected
    ELSE {p \in WriterPaths : writer.disk[p].exists}

\* C14 as the code has it: when an export has run, the blocks written are in
\* ascending order, one each for the first paths of the selection in that
\* order (of every file of the repository when the selection is empty), up
\* to the first whose read raised; all of them when none raised.
C14_BlocksAreChosenPrefix ==
    writer.done =>
        /\ Range(BlockPaths) \subseteq Chosen
        /\ Len(BlockPaths) = Cardinality(Range(BlockPaths))
        /\ \A i, j \in 1..Len(BlockPaths) : i < j => StrLess(BlockPaths[i], BlockPaths[j])
        /\ \A p \in Chosen \ Range(BlockPaths) :
             \A q \in Range(BlockPaths) : StrLess(q, p)
        /\ writer.report.raised = "none" => Range(BlockPaths) = Chosen
        /\ writer.report.raised # "none" =>
             \E p \in Chosen \ Range(BlockPaths) :
                 /\ get_file_content(writer.disk[p]).raised = writer.report.raised
                 /\ \A q \in Chosen \ Range(BlockPaths) : q = p \/ StrLess(p, q)

\* an export of the empty selection that wrote the blocks of all three files
C14_Witness ==
    /\ writer.done
    /\ writer.selected = {}
    /\ BlockPaths = <<PathAC, PathAB, PathB>>

\* ------------------------------------------------------------------ C15

\* C15: while a repository is loaded and the selection is not empty, the
\* Save action has not ended in an error before FileWriter.save_to_file; with
\* an empty selection it has ended in the warning.
C15_SaveReachesWriter ==
    last_event.op \in {"save_warning", "save_attribute_error"} =>
        IF selected_files # {}
        THEN repo_handler # NoHandler => last_event.op # "save_attribute_error"
        ELSE last_event.op = "save_warning"

\* ------------------------------------------------------------------ C16

\* the ways process_repo fails: in the constructor of the resolver, or in
\* get_repo_structure
FailureOps ==
    {"not_a_git_repository", "branch_not_found", "clone_failed", "clone_error",
     "scan_failed"}

\* C16: every step that ends in a failure of process_repo leaves the
\* resolver the application holds, the structure, the items of the list with
\* their tags, and the selection as they were.
C16_FailureChangesNothing ==
    [][last_event'.op \in FailureOps
          => /\ repo_handler' = repo_handler
             /\ structure' = structure
             /\ item_full_paths' = item_full_paths
             /\ item_tags' = item_tags
             /\ selected_files' = selected_files]_vars

\* ------------------------------------------------------------------ C17

\* C17: in every state, each file item of the list carries the strikethrough
\* tag exactly if its full path is not in the selection set.
C17_TagsAgreeWithSelection ==
    \A i \in FileItems :
        IsStruck(item_tags, i) <=> item_full_paths[i] \notin selected_files

\* a directory was clicked, and the list shows a file struck through and a
\* file not struck through
C17_Witness ==
    /\ last_event.op = "on_file_select"
    /\ last_event.index \in DirItems
    /\ \E i, j \in FileItems : IsStruck(item_tags, i) /\ ~IsStruck(item_tags, j)

\* ------------------------------------------------------------------ C18

\* C18: in every state the Save button is enabled exactly if the selection
\* set is not empty.
C18_SaveEnabledIffSelection ==
    save_button = "normal" <=> selected_files # {}

====
